---------------------------- MODULE Spec2Model ----------------------------
(***************************************************************************)
(* A model of ml_tools/feature_generator.py: the Aggregator hierarchy      *)
(* (SimpleAggregator, SingleAggregator, Average) and the feature           *)
(* generators (Hour, DateTimeInfo, ZipCodeInfo).                           *)
(*                                                                         *)
(* A pandas DataFrame is a record [py, cols, dtypes, rows, index]: the     *)
(* column labels in order, each column's dtype, the rows in order, every   *)
(* row a function from column label to cell value, and the row labels in   *)
(* row order.  Python's None is `None`                                     *)
(* where a str is expected and `NoneObj` where an object is expected.      *)
(* Tables hold no missing values (NaN, None, NaT), a column holds cells of  *)
(* one Python type, no key column is labelled 'count' and no column is      *)
(* labelled like one a generator adds.  An int assigned into a column of    *)
(* timestamps makes it a column of objects, as in pandas 1.x.               *)
(***************************************************************************)
EXTENDS Integers, Sequences, FiniteSets, TLC

VARIABLES
    agg,        \* the aggregator instance, NoAgg before/without construction
    err,        \* the exception the last call raised, "" when it returned
    result,     \* what the last aggregate() or generator call returned
    args,       \* the arguments of the constructor or generator call
    declared,   \* the pair of keys of the most recent declaration
    usedDecl,   \* the declaration in force when aggregate() last returned
    table,      \* the caller's table handed to a generator, NoneObj without one
    service     \* the zip-code service: engines made and the codes looked up

vars == <<agg, err, result, args, declared, usedDecl, table, service>>

-----------------------------------------------------------------------------
(* Python values *)

None == "None"

NoneObj == [py |-> "NoneType"]

PyStr(s) == [py |-> "str", s |-> s]

\* the default row labels of a table of n rows: 0, 1, ..., n-1
RangeIndex(n) == [i \in 1..n |-> i - 1]

\* a table with the default row labels
DataFrame(cols, dtypes, rows) ==
    [py |-> "DataFrame", cols |-> cols, dtypes |-> dtypes, rows |-> rows,
     index |-> RangeIndex(Len(rows))]

\* pd.DataFrame(..., index=index)
WithIndex(d, index) == [d EXCEPT !.index = index]

Range(s) == {s[i] : i \in DOMAIN s}

\* data[column]: the column's values in row order
Column(data, column) == [i \in DOMAIN data.rows |-> data.rows[i][column]]

HasColumn(data, column) ==
    data.py = "DataFrame" /\ column \in Range(data.cols)

\* the number of positions of s holding v
RECURSIVE Count(_, _)
Count(s, v) ==
    IF s = <<>> THEN 0
    ELSE (IF s[1] = v THEN 1 ELSE 0) + Count(Tail(s), v)

\* Series.unique(): the distinct values in order of first appearance
RECURSIVE unique(_)
unique(s) ==
    IF s = <<>> THEN <<>>
    ELSE LET u == unique(SubSeq(s, 1, Len(s) - 1))
             x == s[Len(s)]
         IN  IF x \in Range(u) THEN u ELSE Append(u, x)

\* value_counts gone wrong: every distinct value listed with the count 1
value_counts_ones(s, key) ==
    { [i \in 1..Len(unique(s)) |->
         [c \in {key, "count"} |-> IF c = key THEN unique(s)[i] ELSE 1]] }

\* Series.value_counts().reset_index() with the columns renamed [key, 'count']:
\* one row per distinct value with its frequency, most frequent first.  The
\* order among equally frequent values is the library's and is left open.
value_counts(s, key) ==
    LET u == unique(s)
        Perms == { p \in [1..Len(u) -> 1..Len(u)] :
                     \A i, j \in 1..Len(u) : i # j => p[i] # p[j] }
        Sorted(p) == \A i, j \in 1..Len(u) :
                        i < j => Count(s, u[p[i]]) >= Count(s, u[p[j]])
    IN  { [i \in 1..Len(u) |->
             [c \in {key, "count"} |->
                IF c = key THEN u[p[i]] ELSE Count(s, u[p[i]])]] :
          p \in {q \in Perms : Sorted(q)} }


\* an operation's outcome: it returns a value or raises
Return(v) == [ok |-> TRUE, err |-> "", value |-> v]

Raise(e) == [ok |-> FALSE, err |-> e, value |-> NoneObj]

\* dict[k] = v on a dict kept as a function
DictSet(d, k, v) == [x \in DOMAIN d \cup {k} |-> IF x = k THEN v ELSE d[x]]

EmptyDict == [x \in {} |-> NoneObj]

\* dict[k] = v on a dict kept as the sequence of its items in insertion order
RECURSIVE ItemsSet(_, _, _)
ItemsSet(items, k, v) ==
    IF items = <<>> THEN << <<k, v>> >>
    ELSE IF items[1][1] = k THEN << <<k, v>> >> \o Tail(items)
    ELSE << items[1] >> \o ItemsSet(Tail(items), k, v)

-----------------------------------------------------------------------------
(* class Aggregator *)

NoAgg == [cls |-> "none"]

\* __init__ gone wrong: the second table is not asked for
Aggregator_init_no_table_check(cls, data1, data2, rkey1, rkey2, label1, label2) ==
    LET self0 == [cls |-> cls, _data |-> DictSet(EmptyDict, label1, data1),
                  _label1 |-> label1, _label2 |-> label2,
                  _rkey1 |-> rkey1, _rkey2 |-> rkey2,
                  _relationships |->
                     IF rkey1 # None THEN << <<rkey1, rkey2>> >> ELSE <<>>]
    IN  IF rkey1 # None /\ rkey2 = None
        THEN Raise("KeyError: need both keys for a relationship")
        ELSE Return(IF data2 # NoneObj
                    THEN [self0 EXCEPT !._data = DictSet(@, label2, data2)]
                    ELSE self0)

\* Aggregator.__init__
Aggregator_init(cls, data1, data2, rkey1, rkey2, label1, label2) ==
    LET d1 == DictSet(EmptyDict, label1, data1)
        self0 == [cls |-> cls, _data |-> d1, _label1 |-> label1,
                  _label2 |-> label2, _rkey1 |-> rkey1, _rkey2 |-> rkey2,
                  _relationships |-> <<>>]
        self1 == IF rkey1 # None
                 THEN [self0 EXCEPT !._relationships = ItemsSet(@, rkey1, rkey2)]
                 ELSE self0
        self2 == IF data2 # NoneObj
                 THEN [self1 EXCEPT !._data = DictSet(@, label2, data2)]
                 ELSE self1
    IN  IF rkey1 # None /\ rkey2 = None
        THEN Raise("KeyError: need both keys for a relationship")
        ELSE IF rkey1 # None /\ data2 = NoneObj
        THEN Raise("KeyError: need multiple dataframes to define the relationship")
        ELSE Return(self2)

\* SingleAggregator.__init__
SingleAggregator_init(data, label, rkey1) ==
    Aggregator_init("SingleAggregator", data, PyStr("NONE"), rkey1, "NONE",
                    label, "data2")

\* Average.__init__
Average_init(data, key, label) ==
    Aggregator_init("Average", data, PyStr("NONE"), key, "NONE", label, "data2")

\* Aggregator.relationships: the lines after the heading, each line
\* label1.key -> label2.rel kept as <<label1, key, label2, rel>>
relationships(self) ==
    [i \in DOMAIN self._relationships |->
        <<self._label1, self._relationships[i][1],
          self._label2, self._relationships[i][2]>>]

\* Aggregator.__getitem__
getitem(self, item) ==
    IF item \in DOMAIN self._data THEN Return(self._data[item])
    ELSE Raise("KeyError")

\* Aggregator.keys
keys(self) == DOMAIN self._data

\* new_relationship gone wrong: the right key in use is not replaced
new_relationship_stale_rkey2(self, rkey1, rkey2) ==
    [self EXCEPT !._relationships = ItemsSet(@, rkey1, rkey2),
                 !._rkey1 = rkey1]

\* Aggregator.new_relationship
new_relationship(self, rkey1, rkey2) ==
    [self EXCEPT !._relationships = ItemsSet(@, rkey1, rkey2),
                 !._rkey1 = rkey1,
                 !._rkey2 = rkey2]


\* pd.DataFrame(series.value_counts()).reset_index() with columns [key, 'count'],
\* for each order the library may give
CountFrames(data, key) ==
    { DataFrame(<<key, "count">>,
                [c \in {key, "count"} |->
                    IF c = key THEN data.dtypes[key] ELSE "int64"],
                rows) : rows \in value_counts(Column(data, key), key) }

\* SingleAggregator.aggregate: the set of tables it may return (one per order
\* of value_counts), or the error it raises
SingleAggregator_aggregate(self) ==
    IF self._label1 \notin DOMAIN self._data
       \/ ~HasColumn(self._data[self._label1], self._rkey1)
    THEN {Raise("KeyError")}
    ELSE {Return(out_df) : out_df \in CountFrames(self._data[self._label1], self._rkey1)}

\* the loop gone wrong: the membership test never finds the value (as a test
\* against the frame instead of its key column would), so every value of
\* rel_values is appended with count 0
RECURSIVE ZeroFill_always(_, _, _, _)
ZeroFill_always(rows, rel_values, i, key) ==
    IF i > Len(rel_values) THEN rows
    ELSE ZeroFill_always(
            Append(rows, [c \in {key, "count"} |->
                            IF c = key THEN rel_values[i] ELSE 0]),
            rel_values, i + 1, key)

\* the loop of SimpleAggregator.aggregate over rel_values[i..]: a value not in
\* agg_df's key column is appended with count 0
RECURSIVE ZeroFill(_, _, _, _)
ZeroFill(rows, rel_values, i, key) ==
    IF i > Len(rel_values) THEN rows
    ELSE LET v == rel_values[i]
             present == \E j \in DOMAIN rows : rows[j][key] = v
             s == [c \in {key, "count"} |-> IF c = key THEN v ELSE 0]
         IN  ZeroFill(IF present THEN rows ELSE Append(rows, s),
                      rel_values, i + 1, key)

\* SimpleAggregator.aggregate
SimpleAggregator_aggregate(self) ==
    IF \/ self._label2 \notin DOMAIN self._data
       \/ ~HasColumn(self._data[self._label2], self._rkey2)
       \/ self._label1 \notin DOMAIN self._data
       \/ ~HasColumn(self._data[self._label1], self._rkey1)
    THEN {Raise("KeyError")}
    ELSE LET rel_values == unique(Column(self._data[self._label2], self._rkey2))
         IN  { Return(DataFrame(agg_df.cols, agg_df.dtypes,
                                ZeroFill(agg_df.rows, rel_values, 1,
                                         self._rkey1))) :
               agg_df \in CountFrames(self._data[self._label1], self._rkey1) }

RECURSIVE Sum(_)
Sum(s) == IF s = <<>> THEN 0 ELSE s[1] + Sum(Tail(s))

RECURSIVE GCD(_, _)
GCD(a, b) == IF b = 0 THEN a ELSE GCD(b, a % b)

\* the rational n/d in lowest terms, as <<numerator, denominator>>
Frac(n, d) == LET g == GCD(n, d) IN <<n \div g, d \div g>>

\* Series.mean() of a numeric column
mean(s) == Frac(Sum(s), Len(s))

SelectRows(rows, key, el) == SelectSeq(rows, LAMBDA r : r[key] = el)

\* the columns other than key, in the table's order
OtherCols(data, key) == SelectSeq(data.cols, LAMBDA c : c # key)

AvgName(col) == col \o "_avg"

\* pd.merge(left, right, on=key) for a right table with one row per key value:
\* the left rows in order, each extended by the right row of the same key
MergeRows(left, right, key, rcols) ==
    LET match(i) == CHOOSE j \in DOMAIN right : right[j][key] = left[i][key]
    IN  [i \in DOMAIN left |->
           [c \in DOMAIN left[i] \cup rcols |->
              IF c \in DOMAIN left[i] THEN left[i][c] ELSE right[match(i)][c]]]

\* Average.aggregate
Average_aggregate(self) ==
    IF self._label1 \notin DOMAIN self._data
       \/ ~HasColumn(self._data[self._label1], self._rkey1)
    THEN {Raise("KeyError")}
    ELSE LET data == self._data[self._label1]
             key == self._rkey1
             others == OtherCols(data, key)
             new_cols == [i \in DOMAIN others |-> AvgName(others[i])]
         IN  IF data.rows = <<>>
             \* avgs = pd.DataFrame([]) has no columns: avgs.columns = new_cols
             \* raises "Length mismatch"
             THEN {Raise("ValueError")}
             ELSE IF \E i \in DOMAIN others : data.dtypes[others[i]] = "object"
             \* the mean of a column of strings
             THEN {Raise("TypeError")}
             ELSE { LET elements == Column(out_df, key)
                        avgs == [e \in DOMAIN elements |->
                                   [c \in {key} \cup Range(new_cols) |->
                                      IF c = key THEN elements[e]
                                      ELSE LET i == CHOOSE k \in DOMAIN others :
                                                        AvgName(others[k]) = c
                                           IN mean(Column(
                                                [data EXCEPT !.rows =
                                                   SelectRows(@, key, elements[e])],
                                                others[i]))]]
                    IN  Return(DataFrame(
                          out_df.cols \o new_cols,
                          [c \in Range(out_df.cols) \cup Range(new_cols) |->
                             IF c \in Range(out_df.cols) THEN out_df.dtypes[c]
                             ELSE "float64"],
                          MergeRows(out_df.rows, avgs, key, Range(new_cols)))) :
                    out_df \in CountFrames(data, key) }

\* aggregate() of the instance's class
aggregate(self) ==
    CASE self.cls = "SimpleAggregator" -> SimpleAggregator_aggregate(self)
      [] self.cls = "SingleAggregator" -> SingleAggregator_aggregate(self)
      [] self.cls = "Average" -> Average_aggregate(self)

-----------------------------------------------------------------------------
(* The tables of tests/conftest.py, the string columns of multi_dataset and *)
(* single_dataset as it is.                                                 *)

Row2(c1, v1, c2, v2) == [c \in {c1, c2} |-> IF c = c1 THEN v1 ELSE v2]

Row3(c1, v1, c2, v2, c3, v3) ==
    [c \in {c1, c2, c3} |-> IF c = c1 THEN v1 ELSE IF c = c2 THEN v2 ELSE v3]

df1 ==
    DataFrame(<<"animal", "type">>,
              [c \in {"animal", "type"} |-> "object"],
              << Row2("animal", "dog", "type", "mammal"),
                 Row2("animal", "cat", "type", "mammal"),
                 Row2("animal", "monkey", "type", "mammal"),
                 Row2("animal", "lizard", "type", "reptile") >>)

df2 ==
    DataFrame(<<"type", "blood_temp">>,
              [c \in {"type", "blood_temp"} |-> "object"],
              << Row2("type", "mammal", "blood_temp", "warm"),
                 Row2("type", "reptile", "blood_temp", "cold"),
                 Row2("type", "insect", "blood_temp", "idk") >>)

single_dataset ==
    DataFrame(<<"animal", "num_legs", "num_arms">>,
              [c \in {"animal", "num_legs", "num_arms"} |->
                  IF c = "animal" THEN "object" ELSE "int64"],
              << Row3("animal", "dog", "num_legs", 4, "num_arms", 0),
                 Row3("animal", "cat", "num_legs", 4, "num_arms", 0),
                 Row3("animal", "monkey", "num_legs", 2, "num_arms", 2) >>)

\* the keys and labels the calls are given
LeftKeys == {"type", "animal"}

RightKeys == {"type", "blood_temp"}

SingleKeys == {"animal", "num_legs"}

-----------------------------------------------------------------------------
(* The life of one aggregator: a constructor call, then new_relationship    *)
(* and aggregate calls in any order.                                        *)

NoArgs == [cls |-> "none"]

\* no SearchEngine was made and no code looked up
NoService == [engines |-> 0, lookups |-> <<>>]

Init ==
    /\ agg = NoAgg
    /\ err = ""
    /\ result = NoneObj
    /\ args = NoArgs
    /\ declared = <<None, None>>
    /\ usedDecl = <<None, None>>
    /\ table = NoneObj
    /\ service = NoService

\* no constructor call was made yet
Unconstructed == agg = NoAgg /\ err = ""

\* the caller's constructor call ends: with the instance, or with the error
\* and no instance
Constructed(out, a, pair) ==
    /\ agg' = IF out.ok THEN out.value ELSE NoAgg
    /\ err' = out.err
    /\ args' = a
    /\ declared' = pair
    /\ UNCHANGED <<result, usedDecl, table, service>>

\* SimpleAggregator(df1[, df2][, rkey1=][, rkey2=][, label1=][, label2=]);
\* an omitted argument takes the default of Aggregator.__init__
ConstructSimple ==
    /\ Unconstructed
    /\ \E data2 \in {df2, NoneObj}, rkey1 \in LeftKeys \cup {None},
          rkey2 \in RightKeys \cup {None},
          label1 \in {None, "animals"}, label2 \in {None, "animal_types"} :
          Constructed(
            Aggregator_init("SimpleAggregator", df1, data2, rkey1, rkey2,
            IF label1 = None THEN "data1" ELSE label1,
            IF label2 = None THEN "data2" ELSE label2),
            [cls |-> "SimpleAggregator", data1 |-> df1, data2 |-> data2,
            rkey1 |-> rkey1, rkey2 |-> rkey2,
            label1 |-> label1, label2 |-> label2],
            <<rkey1, rkey2>>)

\* SingleAggregator(single_dataset[, label=][, rkey1=]); an omitted argument
\* takes the default of SingleAggregator.__init__, None
ConstructSingle ==
    /\ Unconstructed
    /\ \E label \in {None, "animals"}, rkey1 \in SingleKeys \cup {None} :
          Constructed(
            SingleAggregator_init(single_dataset, label, rkey1),
            [cls |-> "SingleAggregator", data1 |-> single_dataset,
            data2 |-> NoneObj, rkey1 |-> rkey1, rkey2 |-> None,
            label1 |-> label, label2 |-> None],
            <<rkey1, "NONE">>)

\* Average(single_dataset, key[, label=])
ConstructAverage ==
    /\ Unconstructed
    /\ \E label \in {None, "animals"}, key \in SingleKeys :
          Constructed(
            Average_init(single_dataset, key, label),
            [cls |-> "Average", data1 |-> single_dataset,
            data2 |-> NoneObj, rkey1 |-> key, rkey2 |-> None,
            label1 |-> label, label2 |-> None],
            <<key, "NONE">>)

\* agg.new_relationship(rkey1, rkey2)
NewRelationship ==
    \E rkey1 \in LeftKeys, rkey2 \in RightKeys :
        /\ agg # NoAgg
        /\ agg' = new_relationship(agg, rkey1, rkey2)
        /\ declared' = <<rkey1, rkey2>>
        /\ err' = ""
        /\ UNCHANGED <<result, args, usedDecl, table, service>>

\* result = agg.aggregate()
Aggregate ==
    /\ agg # NoAgg
    /\ \E out \in aggregate(agg) :
        /\ err' = out.err
        /\ result' = IF out.ok THEN out.value ELSE result
        /\ usedDecl' = IF out.ok THEN declared ELSE usedDecl
    /\ UNCHANGED <<agg, args, declared, table, service>>

Next ==
    \/ ConstructSimple
    \/ ConstructSingle
    \/ ConstructAverage
    \/ NewRelationship
    \/ Aggregate

Spec == Init /\ [][Next]_vars

-----------------------------------------------------------------------------
(* Claims about the aggregator's construction and relationship bookkeeping, *)
(* checked under Spec.                                                      *)

MissingRightKey == "KeyError: need both keys for a relationship"

MissingSecondTable == "KeyError: need multiple dataframes to define the relationship"

\* what a constructor call of Aggregator.__init__ with arguments a must end in:
\* instance g (NoAgg for none) and error e
ConstructionRule(a, g, e) ==
    a.rkey1 # None =>
        /\ a.rkey2 = None => g = NoAgg /\ e = MissingRightKey
        /\ (a.rkey2 # None /\ a.data2 = NoneObj) =>
               g = NoAgg /\ e = MissingSecondTable
        /\ (a.rkey2 # None /\ a.data2 # NoneObj) =>
               /\ g # NoAgg /\ e = ""
               /\ g._relationships = << <<a.rkey1, a.rkey2>> >>
               /\ relationships(g) =
                     << <<g._label1, a.rkey1, g._label2, a.rkey2>> >>
               /\ g._rkey1 = a.rkey1 /\ g._rkey2 = a.rkey2

\* C2: every constructor call of the two-table aggregator that is given a
\* left key fails with "need both keys for a relationship" when the right key
\* is missing, fails with "need multiple dataframes to define the
\* relationship" when the right key is given and the second table is missing
\* (no instance results either way), and otherwise succeeds with the pair
\* (rkey1, rkey2) recorded as the one relationship.
C2_ConstructionRule ==
    [][(args = NoArgs /\ args' # NoArgs /\ args'.cls = "SimpleAggregator")
         => ConstructionRule(args', agg', err')]_vars

\* C2 witness: a construction with both keys and no second table has failed
\* with the second message and left no instance
C2_Witness ==
    /\ args # NoArgs /\ args.cls = "SimpleAggregator"
    /\ args.rkey1 # None /\ args.rkey2 # None /\ args.data2 = NoneObj
    /\ agg = NoAgg /\ err = MissingSecondTable

\* the rows a relational count over (key1 in t1, key2 in t2) must have: each
\* distinct value of t2's key2 column exactly once, with its frequency in t1's
\* key1 column
CountsBy(rows, key1, t1, key2, t2) ==
    \A v \in Range(Column(t2, key2)) :
        /\ Cardinality({i \in DOMAIN rows : rows[i][key1] = v}) = 1
        /\ \A i \in DOMAIN rows :
              rows[i][key1] = v => rows[i]["count"] = Count(Column(t1, key1), v)

\* C3: the keys aggregate reads are those of the most recent declaration (the
\* constructor's when new_relationship was never called), and what a
\* two-table aggregate() returned is the count over the pair declared last
\* before that call.
C3_ActivePairIsLastDeclared ==
    /\ agg # NoAgg => agg._rkey1 = declared[1] /\ agg._rkey2 = declared[2]
    /\ (agg # NoAgg /\ agg.cls = "SimpleAggregator" /\ result # NoneObj) =>
          /\ result.cols = <<usedDecl[1], "count">>
          /\ CountsBy(result.rows, usedDecl[1], args.data1,
                      usedDecl[2], args.data2)

\* C3 witness: a two-table aggregator re-declared to a pair other than the
\* constructor's, with a second left key, has aggregated over the new pair
C3_Witness ==
    /\ agg # NoAgg /\ agg.cls = "SimpleAggregator"
    /\ args.rkey1 # None
    /\ declared # <<args.rkey1, args.rkey2>>
    /\ Len(agg._relationships) = 2
    /\ result # NoneObj /\ usedDecl = declared /\ err = ""

\* C4: the relationship mapping of an instance has at most one entry, so the
\* description lists at most one line, and that line is the active pair.
C4_AtMostOneRelationship ==
    agg # NoAgg =>
        /\ Len(agg._relationships) <= 1
        /\ \A i \in DOMAIN relationships(agg) :
              relationships(agg)[i] =
                <<agg._label1, agg._rkey1, agg._label2, agg._rkey2>>

\* the labels and tables of the constructor call a, a missing label being
\* data1 or data2
Label1Of(a) == IF a.label1 = None THEN "data1" ELSE a.label1

Label2Of(a) == IF a.label2 = None THEN "data2" ELSE a.label2

HoldsExactly(g, a) ==
    /\ keys(g) = {Label1Of(a)} \cup
                 (IF a.data2 # NoneObj THEN {Label2Of(a)} ELSE {})
    /\ getitem(g, Label1Of(a)) = Return(a.data1)
    /\ a.data2 # NoneObj => getitem(g, Label2Of(a)) = Return(a.data2)

\* C7: an aggregator holds exactly the tables it was constructed with, under
\* their labels (data1 and data2 when none is given); a single-table
\* aggregator holds exactly its one table, under its label (data1 by default).
C7_HoldsExactlyItsTables ==
    agg # NoAgg => HoldsExactly(agg, args)

-----------------------------------------------------------------------------
(* The aggregations over all small tables: a constructor call with the key  *)
(* columns in place, then aggregate().                                      *)

\* the most rows a table has
MaxRows == 3

\* the sequences over S of at most n elements
SeqUpTo(S, n) == UNION {[1..k -> S] : k \in 0..n}

\* the values of multi_dataset's type column
TypeVals == {"mammal", "reptile", "insect"}

\* tables with the one column `type`
TypeTables ==
    { DataFrame(<<"type">>, [c \in {"type"} |-> "object"],
                [i \in DOMAIN col |-> [c \in {"type"} |-> col[i]]]) :
      col \in SeqUpTo(TypeVals, MaxRows) }

\* tables shaped like the iris table of test_average: a key column between
\* two numeric columns
SpeciesVals == {"setosa", "virginica"}

LengthVals == {1, 2, 4}

WidthVals == {0, 3}

IrisRows ==
    { Row3("sepal_length", l, "species", k, "sepal_width", w) :
      l \in LengthVals, k \in SpeciesVals, w \in WidthVals }

IrisTables ==
    { DataFrame(<<"sepal_length", "species", "sepal_width">>,
                [c \in {"sepal_length", "species", "sepal_width"} |->
                    IF c = "species" THEN "object" ELSE "int64"],
                rows) : rows \in SeqUpTo(IrisRows, MaxRows) }

\* SimpleAggregator(t1, t2, rkey1='type', rkey2='type')
ConstructRelationalCount ==
    /\ Unconstructed
    /\ \E t1 \in TypeTables, t2 \in TypeTables :
          Constructed(
            Aggregator_init("SimpleAggregator", t1, t2, "type", "type",
            "data1", "data2"),
            [cls |-> "SimpleAggregator", data1 |-> t1, data2 |-> t2,
            rkey1 |-> "type", rkey2 |-> "type",
            label1 |-> None, label2 |-> None],
            <<"type", "type">>)

\* SingleAggregator(t, rkey1='type')
ConstructSingleKeyCount ==
    /\ Unconstructed
    /\ \E t \in TypeTables :
          Constructed(
            SingleAggregator_init(t, None, "type"),
            [cls |-> "SingleAggregator", data1 |-> t, data2 |-> NoneObj,
            rkey1 |-> "type", rkey2 |-> None,
            label1 |-> None, label2 |-> None],
            <<"type", "NONE">>)

\* Average(t, 'species')
ConstructGroupAverage ==
    /\ Unconstructed
    /\ \E t \in IrisTables :
          Constructed(
            Average_init(t, "species", None),
            [cls |-> "Average", data1 |-> t, data2 |-> NoneObj,
            rkey1 |-> "species", rkey2 |-> None,
            label1 |-> None, label2 |-> None],
            <<"species", "NONE">>)

NextData ==
    \/ ConstructRelationalCount
    \/ ConstructSingleKeyCount
    \/ ConstructGroupAverage
    \/ Aggregate

SpecData == Init /\ [][NextData]_vars

-----------------------------------------------------------------------------
(* Claims about what aggregate() returns, checked under SpecData.           *)

Constructed_as(cls) == agg # NoAgg /\ agg.cls = cls

\* the number of rows of the result whose column key holds v
RowsWith(rows, key, v) == Cardinality({i \in DOMAIN rows : rows[i][key] = v})

\* C1: RelationalCount never fails on two tables with the key columns, and
\* every distinct value of table2's key column appears in the result exactly
\* once: with count 0 when it does not occur in table1's key column, and with
\* its number of occurrences there when it does.
C1_RelationalCount ==
    Constructed_as("SimpleAggregator") =>
        /\ err = ""
        /\ result # NoneObj =>
            LET col1 == Column(args.data1, "type")
                col2 == Column(args.data2, "type")
            IN  \A v \in Range(col2) :
                  /\ RowsWith(result.rows, "type", v) = 1
                  /\ \A i \in DOMAIN result.rows :
                        result.rows[i]["type"] = v =>
                          /\ v \notin Range(col1) => result.rows[i]["count"] = 0
                          /\ v \in Range(col1) =>
                                result.rows[i]["count"] =
                                  Cardinality({j \in DOMAIN col1 : col1[j] = v})

\* C1 witness: the scenario of test_simple_agg within MaxRows: table1 with
\* mammal twice and reptile once, table2 with mammal, reptile and insect,
\* counted as (mammal, 2), (reptile, 1), (insect, 0)
C1_Witness ==
    /\ Constructed_as("SimpleAggregator") /\ result # NoneObj
    /\ Column(args.data1, "type") = <<"mammal", "mammal", "reptile">>
    /\ Column(args.data2, "type") = <<"mammal", "reptile", "insect">>
    /\ Len(result.rows) = 3
    /\ \E i \in DOMAIN result.rows :
          result.rows[i]["type"] = "insect" /\ result.rows[i]["count"] = 0
    /\ \E i \in DOMAIN result.rows :
          result.rows[i]["type"] = "mammal" /\ result.rows[i]["count"] = 2

\* C5: SingleKeyCount never fails on a table with the key column; its rows,
\* order ignored, are the pairs (v, number of rows whose key is v) over the
\* distinct values v of the key column, each value once, and the counts add
\* up to the number of rows of the table.
C5_SingleKeyCount ==
    Constructed_as("SingleAggregator") =>
        /\ err = ""
        /\ result # NoneObj =>
            LET col == Column(args.data1, "type")
                pair(v) == [c \in {"type", "count"} |->
                             IF c = "type" THEN v
                             ELSE Cardinality({j \in DOMAIN col : col[j] = v})]
            IN  /\ result.cols = <<"type", "count">>
                /\ Range(result.rows) = {pair(v) : v \in Range(col)}
                /\ Len(result.rows) = Cardinality(Range(col))
                /\ Sum(Column(result, "count")) = Len(args.data1.rows)

\* C5 witness: a table of three rows with a repeated key value was counted
C5_Witness ==
    /\ Constructed_as("SingleAggregator") /\ result # NoneObj
    /\ Len(args.data1.rows) = 3
    /\ Len(result.rows) = 2
    /\ \E i \in DOMAIN result.rows : result.rows[i]["count"] >= 2

\* the row of a group average for key value k: the count of k and, for each
\* other column c, a fraction <<n, d>> equal to the mean of c over the rows
\* of t whose key is k
IsGroupRow(r, t, key, k) ==
    LET group == SelectRows(t.rows, key, k)
    IN  /\ r[key] = k
        /\ r["count"] = Len(group)
        /\ \A c \in Range(t.cols) \ {key} :
              /\ r[AvgName(c)][2] > 0
              /\ r[AvgName(c)][1] * Len(group) =
                   Sum([i \in DOMAIN group |-> group[i][c]]) * r[AvgName(c)][2]

GroupAverageOf(res, t, key) ==
    /\ res.cols = <<key, "count">> \o
                    [i \in DOMAIN OtherCols(t, key) |->
                        AvgName(OtherCols(t, key)[i])]
    /\ Len(res.rows) = Cardinality(Range(Column(t, key)))
    /\ \A k \in Range(Column(t, key)) :
          \E i \in DOMAIN res.rows : IsGroupRow(res.rows[i], t, key, k)

\* C6: GroupAverage on a table grouped by key returns one row per distinct
\* key value k, with the columns (key, count, c_avg for every other column c
\* in the table's order); count is the number of rows with key k and each
\* c_avg the mean of c over exactly those rows.
C6_GroupAverage ==
    Constructed_as("Average") =>
        /\ err = ""
        /\ result # NoneObj => GroupAverageOf(result, args.data1, "species")

\* What holds of GroupAverage instead: on a table with at least one row it is
\* as C6 says; on a table without rows aggregate() raises.
GroupAverageNonEmpty ==
    Constructed_as("Average") =>
        /\ args.data1.rows # <<>> => err = ""
        /\ (args.data1.rows = <<>> /\ err # "") => err = "ValueError"
        /\ result # NoneObj => GroupAverageOf(result, args.data1, "species")

-----------------------------------------------------------------------------
(* The feature generators.  A cell is a tagged record: a Timestamp, a str,  *)
(* an int, a datetime.time or a field of a zip-code record.  A generator    *)
(* call yields [ok, err, value, data]: whether it returned, the error it    *)
(* raised, the table it returned and the caller's table after the call      *)
(* (generators assign into the table they are given).                       *)

Timestamp(y, mo, d, h, mi) ==
    [py |-> "Timestamp", year |-> y, month |-> mo, day |-> d,
     hour |-> h, minute |-> mi]

PyInt(n) == [py |-> "int", n |-> n]

PyTime(h, mi) == [py |-> "time", hour |-> h, minute |-> mi]

\* the strings of the model that parse as timestamps, and what they parse to
ParsedStrings ==
    [s \in {"2018-01-01 04:00:00", "2020-02-29 23:30:00"} |->
        IF s = "2018-01-01 04:00:00" THEN Timestamp(2018, 1, 1, 4, 0)
        ELSE Timestamp(2020, 2, 29, 23, 30)]

\* whether pd.to_datetime accepts the cell
Coercible(cell) ==
    \/ cell.py \in {"Timestamp", "int"}
    \/ cell.py = "str" /\ cell.s \in DOMAIN ParsedStrings

\* pd.to_datetime of one cell it accepts: a Timestamp as it is, a str parsed,
\* a small int as that many nanoseconds after the epoch
to_datetime_cell(cell) ==
    IF cell.py = "Timestamp" THEN cell
    ELSE IF cell.py = "str" THEN ParsedStrings[cell.s]
    ELSE Timestamp(1970, 1, 1, 0, 0)

\* data[column] = values, the column added last when it is new
SetColumn(d, column, dtype, values) ==
    [d EXCEPT
       !.cols = IF column \in Range(@) THEN @ ELSE Append(@, column),
       !.dtypes = [c \in DOMAIN @ \cup {column} |->
                     IF c = column THEN dtype ELSE @[c]],
       !.rows = [i \in DOMAIN @ |->
                   [c \in DOMAIN @[i] \cup {column} |->
                      IF c = column THEN values[i] ELSE @[i][c]]]]

\* data.drop([column], axis=1)
DropColumn(d, column) ==
    [d EXCEPT
       !.cols = SelectSeq(@, LAMBDA c : c # column),
       !.dtypes = [c \in DOMAIN @ \ {column} |-> @[c]],
       !.rows = [i \in DOMAIN @ |-> [c \in DOMAIN @[i] \ {column} |-> @[i][c]]]]

\* data[column] = pd.to_datetime(data[column]) for a column it accepts
CoerceColumn(d, column) ==
    SetColumn(d, column, "datetime64[ns]",
              [i \in DOMAIN d.rows |-> to_datetime_cell(d.rows[i][column])])

AllCoercible(d, column) ==
    \A i \in DOMAIN d.rows : Coercible(d.rows[i][column])

GenReturn(v, d) == [ok |-> TRUE, err |-> "", value |-> v, data |-> d]

GenRaise(e, d) == [ok |-> FALSE, err |-> e, value |-> NoneObj, data |-> d]

\* series[index] = value on the column of d: the cell of every row labelled
\* index is set, and a column of timestamps that receives an int becomes a
\* column of objects
SetByLabel(d, column, index, value) ==
    [d EXCEPT !.rows = [j \in DOMAIN @ |->
                          IF d.index[j] = index
                          THEN [@[j] EXCEPT ![column] = value] ELSE @[j]],
              !.dtypes[column] = "object"]

\* the loop `for index, time in data[column].iteritems():
\* data[column][index] = time.hour` from row i on, where items are the
\* (index, time) pairs the iteration yields, those of the column as it was
\* when the loop began: the table after it, and whether it ran into a cell
\* without .hour (AttributeError)
RECURSIVE HourLoop(_, _, _, _)
HourLoop(d, column, items, i) ==
    IF i > Len(items) THEN [data |-> d, raised |-> FALSE]
    ELSE IF items[i][2].py # "Timestamp" THEN [data |-> d, raised |-> TRUE]
    ELSE HourLoop(SetByLabel(d, column, items[i][1], PyInt(items[i][2].hour)),
                  column, items, i + 1)

\* data[column].iteritems(): the (index, value) pairs in row order
iteritems(d, column) == [i \in DOMAIN d.rows |-> <<d.index[i], d.rows[i][column]>>]

\* the columns of dtype object, each coerced with errors='ignore': a column
\* pd.to_datetime does not accept stays as it is
RECURSIVE CoerceObjectCols(_, _)
CoerceObjectCols(d, i) ==
    IF i > Len(d.cols) THEN d
    ELSE LET col == d.cols[i]
         IN  CoerceObjectCols(
                IF d.dtypes[col] = "object" /\ AllCoercible(d, col)
                THEN CoerceColumn(d, col) ELSE d,
                i + 1)

\* the hours of every datetime64 column of d0, from column i on
RECURSIVE HourAllCols(_, _, _)
HourAllCols(d0, d, i) ==
    IF i > Len(d0.cols) THEN d
    ELSE HourAllCols(d0,
                     IF d0.dtypes[d0.cols[i]] = "datetime64[ns]"
                     THEN HourLoop(d, d0.cols[i],
                                   iteritems(d, d0.cols[i]), 1).data
                     ELSE d,
                     i + 1)

\* Hour.generate_feature gone wrong: without a column, it raises when the
\* table has no datetime64 column after the coercion
Hour_generate_feature_raising(d, column) ==
    IF column = None
    THEN LET coerced == CoerceObjectCols(d, 1)
             out == HourAllCols(coerced, coerced, 1)
         IN  IF \A c \in Range(coerced.cols) :
                   coerced.dtypes[c] # "datetime64[ns]"
             THEN GenRaise("ValueError", d)
             ELSE GenReturn(out, out)
    ELSE IF column \notin Range(d.cols) THEN GenRaise("KeyError", d)
    ELSE LET first == HourLoop(d, column, iteritems(d, column), 1)
         IN  IF ~first.raised THEN GenReturn(first.data, first.data)
             ELSE IF ~AllCoercible(first.data, column)
             THEN GenRaise("ValueError: to_datetime", first.data)
             ELSE LET coerced == CoerceColumn(first.data, column)
                      out == HourLoop(coerced, column,
                                      iteritems(coerced, column), 1).data
                  IN  GenReturn(out, out)

\* Hour.generate_feature
Hour_generate_feature(d, column) ==
    IF column = None
    THEN LET coerced == CoerceObjectCols(d, 1)
             out == HourAllCols(coerced, coerced, 1)
         IN  GenReturn(out, out)
    ELSE IF column \notin Range(d.cols) THEN GenRaise("KeyError", d)
    ELSE LET first == HourLoop(d, column, iteritems(d, column), 1)
         IN  IF ~first.raised THEN GenReturn(first.data, first.data)
             ELSE IF ~AllCoercible(first.data, column)
             THEN GenRaise("ValueError: to_datetime", first.data)
             ELSE LET coerced == CoerceColumn(first.data, column)
                      out == HourLoop(coerced, column,
                                      iteritems(coerced, column), 1).data
                  IN  GenReturn(out, out)


IsLeap(y) == y % 4 = 0 /\ (y % 100 # 0 \/ y % 400 = 0)

\* the days of the year before the first of month mo
DaysBeforeMonth(y, mo) ==
    <<0, 31, 59, 90, 120, 151, 181, 212, 243, 273, 304, 334>>[mo]
    + (IF mo > 2 /\ IsLeap(y) THEN 1 ELSE 0)

\* weekday gone wrong: the week begins on Sunday
weekday_sunday_zero(ts) ==
    LET y == ts.year - 1
        ord == y * 365 + (y \div 4) - (y \div 100) + (y \div 400)
               + DaysBeforeMonth(ts.year, ts.month) + ts.day
    IN  ord % 7

\* d.weekday(), Monday 0: the proleptic Gregorian ordinal of the date plus 6,
\* modulo 7
weekday(ts) ==
    LET y == ts.year - 1
        ord == y * 365 + (y \div 4) - (y \div 100) + (y \div 400)
               + DaysBeforeMonth(ts.year, ts.month) + ts.day
    IN  (ord + 6) % 7

\* the five assignments and the drop of DateTimeInfo.generate_feature on a
\* column of Timestamps
SplitColumns(d, column) ==
    LET col == Column(d, column)
        n == DOMAIN d.rows
        d1 == SetColumn(d, column \o "_year", "int64",
                        [i \in n |-> PyInt(col[i].year)])
        d2 == SetColumn(d1, column \o "_month", "int64",
                        [i \in n |-> PyInt(col[i].month)])
        d3 == SetColumn(d2, column \o "_day", "int64",
                        [i \in n |-> PyInt(col[i].day)])
        d4 == SetColumn(d3, column \o "_weekday", "int64",
                        [i \in n |-> PyInt(weekday(col[i]))])
    IN  SetColumn(d4, column \o "_time", "object",
                  [i \in n |-> PyTime(col[i].hour, col[i].minute)])

\* DateTimeInfo.generate_feature.  The try block ends in AttributeError at
\* the first list comprehension when a cell is no Timestamp, before anything
\* is assigned, and at `.dt` when the (then empty) column is not datetime64,
\* after the first four assignments, which the except block repeats.
DateTimeInfo_generate_feature(d, column) ==
    IF column = None
    THEN GenRaise("ValueError: timestamp column must be given", d)
    ELSE IF column \notin Range(d.cols) THEN GenRaise("KeyError", d)
    ELSE IF /\ \A i \in DOMAIN d.rows : d.rows[i][column].py = "Timestamp"
            /\ d.dtypes[column] = "datetime64[ns]"
    THEN LET out == SplitColumns(d, column)
         IN  GenReturn(DropColumn(out, column), out)
    ELSE IF ~AllCoercible(d, column)
    THEN GenRaise("ValueError: to_datetime", d)
    ELSE LET out == SplitColumns(CoerceColumn(d, column), column)
         IN  GenReturn(DropColumn(out, column), out)

\* the columns ZipCodeInfo adds, in the order it adds them
ZipColumns == <<"state", "county", "city", "lat", "lng", "timezone">>

\* the attribute of the zip-code record each column is filled from
ZipField(c) == IF c = "city" THEN "major_city" ELSE c

\* one attribute of the record the service returns for a code
ZipInfo(code, field) == [py |-> "zip", code |-> code, field |-> field]

\* data[c] = '' for the six columns, from the i-th on
RECURSIVE AddZipColumns(_, _)
AddZipColumns(d, i) ==
    IF i > Len(ZipColumns) THEN d
    ELSE AddZipColumns(
            SetColumn(d, ZipColumns[i], "object",
                      [r \in DOMAIN d.rows |-> PyStr("")]),
            i + 1)

\* the fill gone wrong: the row mask is dropped and every row is filled
FillZip_all_rows(d, column, zipcode) ==
    [d EXCEPT !.rows =
       [i \in DOMAIN @ |->
          [c \in DOMAIN @[i] |->
             IF c \in Range(ZipColumns)
             THEN ZipInfo(zipcode, ZipField(c)) ELSE @[i][c]]]]

\* data.loc[data[column] == zipcode, c] = zip_search.<field> for the six columns
FillZip(d, column, zipcode) ==
    [d EXCEPT !.rows =
       [i \in DOMAIN @ |->
          IF @[i][column] # zipcode THEN @[i]
          ELSE [c \in DOMAIN @[i] |->
                  IF c \in Range(ZipColumns)
                  THEN ZipInfo(zipcode, ZipField(c)) ELSE @[i][c]]]]

\* the loop over data[column].unique() from the i-th code on; by_zipcode
\* raises for the codes in bad.  Yields the table, the codes looked up and
\* whether a lookup raised.
RECURSIVE ZipLoop(_, _, _, _, _, _)
ZipLoop(d, column, codes, i, bad, looked) ==
    IF i > Len(codes) THEN [data |-> d, lookups |-> looked, raised |-> FALSE]
    ELSE IF codes[i] \in bad
    THEN [data |-> d, lookups |-> Append(looked, codes[i]), raised |-> TRUE]
    ELSE ZipLoop(FillZip(d, column, codes[i]), column, codes, i + 1, bad,
                 Append(looked, codes[i]))

\* ZipCodeInfo.generate_feature gone wrong: the column is asked for after the
\* search engine is made and the six columns are added
ZipCodeInfo_generate_feature_late_check(d, column, bad) ==
    LET added == AddZipColumns(d, 1)
    IN  IF column = None
        THEN [out |-> GenRaise("ValueError: zipcode column must be given", added),
              engines |-> 1, lookups |-> <<>>]
        ELSE IF column \notin Range(added.cols)
        THEN [out |-> GenRaise("KeyError", added),
              engines |-> 1, lookups |-> <<>>]
        ELSE LET loop == ZipLoop(added, column,
                                 unique(Column(added, column)), 1, bad, <<>>)
             IN  [out |-> IF loop.raised
                          THEN GenRaise("LookupError", loop.data)
                          ELSE GenReturn(loop.data, loop.data),
                  engines |-> 1, lookups |-> loop.lookups]

\* ZipCodeInfo.generate_feature with a service that fails for the codes in
\* bad: the outcome, with the engines made and the codes looked up
ZipCodeInfo_generate_feature(d, column, bad) ==
    IF column = None
    THEN [out |-> GenRaise("ValueError: zipcode column must be given", d),
          engines |-> 0, lookups |-> <<>>]
    ELSE LET added == AddZipColumns(d, 1)
         IN  IF column \notin Range(added.cols)
             THEN [out |-> GenRaise("KeyError", added),
                   engines |-> 1, lookups |-> <<>>]
             ELSE LET loop == ZipLoop(added, column,
                                      unique(Column(added, column)), 1, bad, <<>>)
                  IN  [out |-> IF loop.raised
                               THEN GenRaise("LookupError", loop.data)
                               ELSE GenReturn(loop.data, loop.data),
                       engines |-> 1, lookups |-> loop.lookups]

-----------------------------------------------------------------------------
(* One generator call on each small table.                                  *)

ZipVals == {PyInt(90293), PyInt(20186)}

TimestampVals == {Timestamp(2018, 1, 1, 4, 0), Timestamp(2020, 2, 29, 23, 30)}

StringVals ==
    {PyStr("2018-01-01 04:00:00"), PyStr("2020-02-29 23:30:00"),
     PyStr("not a date")}

\* the row labels of the tables of n rows: the default ones, the same in
\* reverse, and two labellings in which rows share a label (0 for every row,
\* 0 and 1 in turn)
RowLabels(n) ==
    {RangeIndex(n), [i \in 1..n |-> n - i], [i \in 1..n |-> 0],
     [i \in 1..n |-> (i - 1) % 2]}

\* tables with a timestamp column of dtype tsType over the cells in tsVals,
\* and a zip_code column
TimestampTables(tsType, tsVals) ==
    UNION { { WithIndex(DataFrame(<<"timestamp", "zip_code">>,
                                  [c \in {"timestamp", "zip_code"} |->
                                      IF c = "timestamp" THEN tsType
                                      ELSE "int64"],
                                  rows),
                        index) : index \in RowLabels(Len(rows)) } :
            rows \in SeqUpTo({Row2("timestamp", t, "zip_code", z) :
                                t \in tsVals, z \in ZipVals}, MaxRows) }

\* tables with the zip_code column alone, like the zipcodes fixture
ZipTables ==
    { DataFrame(<<"zip_code">>, [c \in {"zip_code"} |-> "int64"],
                [i \in DOMAIN col |-> [c \in {"zip_code"} |-> col[i]]]) :
      col \in SeqUpTo(ZipVals, MaxRows) }

GenTables ==
    TimestampTables("datetime64[ns]", TimestampVals)
    \cup TimestampTables("object", StringVals)
    \cup ZipTables

\* the column argument of a call: omitted, or one of these names
ColumnArgs == {None, "timestamp", "zip_code"}

InitGen ==
    /\ agg = NoAgg
    /\ err = ""
    /\ result = NoneObj
    /\ args = NoArgs
    /\ declared = <<None, None>>
    /\ usedDecl = <<None, None>>
    /\ table \in GenTables
    /\ service = NoService

\* a generator call ends: the caller holds what it returned, or its error,
\* and the table as the call left it
Called(op, column, out) ==
    /\ args' = [cls |-> op, column |-> column, before |-> table]
    /\ err' = out.err
    /\ result' = out.value
    /\ table' = out.data
    /\ UNCHANGED <<agg, declared, usedDecl>>

\* Hour.generate_feature(table[, column])
CallHour ==
    /\ args = NoArgs
    /\ \E column \in ColumnArgs :
          /\ Called("Hour", column, Hour_generate_feature(table, column))
          /\ UNCHANGED service

\* DateTimeInfo.generate_feature(table[, column])
CallDateTimeInfo ==
    /\ args = NoArgs
    /\ \E column \in ColumnArgs :
          /\ Called("DateTimeInfo", column,
                    DateTimeInfo_generate_feature(table, column))
          /\ UNCHANGED service

\* ZipCodeInfo.generate_feature(table[, column]), the service failing for
\* some of the codes
CallZipCodeInfo ==
    /\ args = NoArgs
    /\ \E column \in ColumnArgs :
       \E bad \in SUBSET (IF column \in Range(table.cols)
                          THEN Range(Column(table, column)) ELSE {}) :
          LET call == ZipCodeInfo_generate_feature(table, column, bad)
          IN  /\ Called("ZipCodeInfo", column, call.out)
              /\ service' = [engines |-> service.engines + call.engines,
                             lookups |-> service.lookups \o call.lookups]

NextGen ==
    \/ CallHour
    \/ CallDateTimeInfo
    \/ CallZipCodeInfo

SpecGen == InitGen /\ [][NextGen]_vars

-----------------------------------------------------------------------------
(* Claims about the generators' errors, checked under SpecGen.              *)

CalledOp(op) == args # NoArgs /\ args.cls = op

Failed == args # NoArgs /\ err # ""

\* C8 as claimed: whenever a generator call ends in an error, the caller's
\* table is as it was before the call (no column added, no row partly filled).
C8_AllOrNothing ==
    Failed => table = args.before

\* the codes a failed ZipCodeInfo call looked up with success: all but the last
FilledCodes == Range(SubSeq(service.lookups, 1, Len(service.lookups) - 1))

\* C8 as amended: a failed Hour or DateTimeInfo call, and a ZipCodeInfo call
\* failed for an omitted column, leave the caller's table as before; a
\* ZipCodeInfo call that fails later (the column is absent, or a lookup
\* fails) leaves a partial result: the six columns are added after the
\* original ones, whose cells and rows are unchanged, the rows of the codes
\* looked up before the failure are filled and the other rows hold ''.
C8_ErrorEffects ==
    Failed =>
        /\ args.cls \in {"Hour", "DateTimeInfo"} => table = args.before
        /\ (args.cls = "ZipCodeInfo" /\ args.column = None) =>
              table = args.before
        /\ (args.cls = "ZipCodeInfo" /\ args.column # None) =>
              /\ table.cols = args.before.cols \o ZipColumns
              /\ Len(table.rows) = Len(args.before.rows)
              /\ \A i \in DOMAIN table.rows :
                    /\ \A c \in Range(args.before.cols) :
                          table.rows[i][c] = args.before.rows[i][c]
                    /\ \A c \in Range(ZipColumns) :
                          IF /\ args.column \in Range(args.before.cols)
                             /\ table.rows[i][args.column] \in FilledCodes
                          THEN table.rows[i][c] =
                                 ZipInfo(table.rows[i][args.column], ZipField(c))
                          ELSE table.rows[i][c] = PyStr("")

\* C8 witness: a ZipCodeInfo call failed at its second lookup, after filling
\* the rows of the first code, in a table that also has rows of another code
C8_Witness ==
    /\ Failed /\ args.cls = "ZipCodeInfo" /\ err = "LookupError"
    /\ Len(service.lookups) = 2
    /\ \E i, j \in DOMAIN table.rows :
          /\ table.rows[i]["city"] = PyStr("")
          /\ table.rows[j]["city"] # PyStr("")
    /\ table # args.before

\* a table in which Hour can resolve no column: none is of a timestamp dtype
\* and no object column can be coerced to timestamps
NoColumnResolves(d) ==
    \A c \in Range(d.cols) :
        /\ d.dtypes[c] # "datetime64[ns]"
        /\ ~(d.dtypes[c] = "object" /\ AllCoercible(d, c))

\* C9 as claimed: Hour called without a column on a table in which no column
\* resolves raises instead of returning a table.
C9_HourRaisesUnresolved ==
    (CalledOp("Hour") /\ args.column = None /\ NoColumnResolves(args.before))
        => err # "" /\ result = NoneObj

\* C9 as amended: Hour called without a column on a table in which no column
\* resolves raises nothing and returns the table as it was.
C9_HourReturnsUnchanged ==
    (CalledOp("Hour") /\ args.column = None /\ NoColumnResolves(args.before))
        => err = "" /\ result = args.before /\ table = args.before

\* C9 witness: Hour was called without a column on a table whose only
\* candidate, an object column, holds a string that is no timestamp
C9_Witness ==
    /\ CalledOp("Hour") /\ args.column = None
    /\ NoColumnResolves(args.before)
    /\ "timestamp" \in Range(args.before.cols)
    /\ Len(args.before.rows) >= 2
    /\ err = "" /\ result = args.before

\* C10: DateTimeInfo and ZipCodeInfo called without a column raise their
\* ValueError ("timestamp column must be given", "zipcode column must be
\* given") before anything else happens: the table is as before the call, no
\* search engine was made and no code looked up.
C10_ColumnRequired ==
    /\ (CalledOp("DateTimeInfo") /\ args.column = None) =>
          /\ err = "ValueError: timestamp column must be given"
          /\ result = NoneObj /\ table = args.before /\ service = NoService
    /\ (CalledOp("ZipCodeInfo") /\ args.column = None) =>
          /\ err = "ValueError: zipcode column must be given"
          /\ result = NoneObj /\ table = args.before /\ service = NoService

\* C10 witness: ZipCodeInfo was called without a column on a table with rows
C10_Witness ==
    /\ CalledOp("ZipCodeInfo") /\ args.column = None
    /\ Len(args.before.rows) >= 1
    /\ err = "ValueError: zipcode column must be given"
    /\ service = NoService

-----------------------------------------------------------------------------
(* Claims about what the generators return, checked under SpecGen.          *)

\* a timestamp column of d: a column of a timestamp dtype, or a column of
\* objects that pd.to_datetime accepts
IsTimestampColumn(d, c) ==
    /\ c \in Range(d.cols)
    /\ \/ d.dtypes[c] = "datetime64[ns]"
       \/ d.dtypes[c] = "object" /\ AllCoercible(d, c)

\* the columns Hour is to convert: the one named, or every timestamp column
HourColumns(d, column) ==
    IF column = None THEN {c \in Range(d.cols) : IsTimestampColumn(d, c)}
    ELSE {column}

\* out is the table t with the values of the columns in cs replaced by their
\* hours of the day: as many rows, under the same labels, each cell of a
\* column of cs the hour (0..23) of the cell of t at the same position, each
\* other cell as in t
HoursOf(out, t, cs) ==
    /\ out.py = "DataFrame"
    /\ out.cols = t.cols
    /\ Len(out.rows) = Len(t.rows)
    /\ out.index = t.index
    /\ \A i \in DOMAIN t.rows :
          \A c \in Range(t.cols) :
             IF c \in cs
             THEN /\ out.rows[i][c] = PyInt(to_datetime_cell(t.rows[i][c]).hour)
                  /\ out.rows[i][c].n \in 0..23
             ELSE out.rows[i][c] = t.rows[i][c]

\* a Hour call on a table with a timestamp column, for that column or for
\* no column
HourOnTimestamps ==
    /\ CalledOp("Hour")
    /\ IsTimestampColumn(args.before, "timestamp")
    /\ args.column \in {None, "timestamp"}

\* C11: Hour.generate_feature on a table with a timestamp column C, called
\* with column=C or without a column, returns the table with every value of
\* C replaced by the hour of the day (0..23) of the original value at the
\* same row position; the rows are as many and in the same order, and the
\* columns that are no timestamp columns are unchanged.
C11_HourOfDay ==
    HourOnTimestamps =>
        /\ err = ""
        /\ HoursOf(result, args.before, HourColumns(args.before, args.column))

\* whether no two rows of d carry the same label
UniqueLabels(d) ==
    \A i, j \in DOMAIN d.index : d.index[i] = d.index[j] => i = j

\* C11 holds for the tables whose row labels are unique, and then the
\* caller's table is the returned one
HourOfDayUniqueLabels ==
    (HourOnTimestamps /\ UniqueLabels(args.before)) =>
        /\ err = ""
        /\ HoursOf(result, args.before, HourColumns(args.before, args.column))
        /\ table = result

\* what Hour does to rows that share a label: each gets the hour of the last
\* row carrying its label
HourOfLastOfLabel ==
    HourOnTimestamps =>
        /\ err = ""
        /\ Len(result.rows) = Len(args.before.rows)
        /\ \A i \in DOMAIN args.before.rows :
              LET t == args.before
                  last == CHOOSE j \in DOMAIN t.rows :
                             /\ t.index[j] = t.index[i]
                             /\ \A k \in DOMAIN t.rows :
                                   t.index[k] = t.index[i] => k <= j
              IN  result.rows[i]["timestamp"] =
                     PyInt(to_datetime_cell(t.rows[last]["timestamp"]).hour)

\* the days of the week of the dates of the model by the calendar, Monday 0:
\* 1 January 1970 was a Thursday, 1 January 2018 a Monday, 29 February 2020
\* a Saturday
CalendarWeekday(ts) ==
    CASE ts.year = 1970 /\ ts.month = 1 /\ ts.day = 1 -> 3
      [] ts.year = 2018 /\ ts.month = 1 /\ ts.day = 1 -> 0
      [] ts.year = 2020 /\ ts.month = 2 /\ ts.day = 29 -> 5

\* the five columns DateTimeInfo makes of column C, in the order it adds them
SplitNames(C) ==
    <<C \o "_year", C \o "_month", C \o "_day", C \o "_weekday", C \o "_time">>

\* out is t with column C split: the columns of t without C, in their order,
\* then the five new ones; as many rows under the same labels; in every row
\* the cells of the other columns as in t and the five cells the year, month,
\* day, weekday (Monday 0) and time of day of the row's cell of C
SplitOf(out, t, C) ==
    /\ out.py = "DataFrame"
    /\ out.cols = SelectSeq(t.cols, LAMBDA c : c # C) \o SplitNames(C)
    /\ Len(out.cols) = Len(t.cols) + 4
    /\ Len(out.rows) = Len(t.rows)
    /\ out.index = t.index
    /\ \A i \in DOMAIN t.rows :
          LET orig == to_datetime_cell(t.rows[i][C])
              r == out.rows[i]
          IN  /\ DOMAIN r = Range(out.cols)
              /\ \A c \in Range(t.cols) \ {C} : r[c] = t.rows[i][c]
              /\ r[C \o "_year"] = PyInt(orig.year)
              /\ r[C \o "_month"] = PyInt(orig.month)
              /\ r[C \o "_day"] = PyInt(orig.day)
              /\ r[C \o "_weekday"] = PyInt(CalendarWeekday(orig))
              /\ r[C \o "_time"] = PyTime(orig.hour, orig.minute)

\* C12: DateTimeInfo.generate_feature with column C on a table of n columns,
\* when it returns, returns a table with the same rows in the same order
\* whose columns are the input's columns without C followed by C_year,
\* C_month, C_day, C_weekday and C_time (n+4 columns); in every row the five
\* values are the year, month, day, weekday (Monday 0) and time of day of the
\* row's original value of C.  A column of timestamps, or of strings that
\* parse as timestamps, makes it return.
C12_DateTimeSplit ==
    (CalledOp("DateTimeInfo") /\ args.column # None) =>
        /\ err = "" => SplitOf(result, args.before, args.column)
        /\ IsTimestampColumn(args.before, args.column) => err = ""

\* C12 witness: DateTimeInfo has split a column of strings holding both
\* dates of the model, in a table whose rows share a label, into the five
\* columns; the Saturday 29 February 2020 got weekday 5
C12_Witness ==
    /\ CalledOp("DateTimeInfo") /\ args.column = "timestamp" /\ err = ""
    /\ args.before.dtypes["timestamp"] = "object"
    /\ Len(args.before.rows) >= 2
    /\ ~UniqueLabels(args.before)
    /\ result.cols = <<"zip_code", "timestamp_year", "timestamp_month",
                       "timestamp_day", "timestamp_weekday", "timestamp_time">>
    /\ \E i, j \in DOMAIN result.rows :
          /\ result.rows[i]["timestamp_weekday"] = PyInt(5)
          /\ result.rows[i]["timestamp_time"] = PyTime(23, 30)
          /\ result.rows[j]["timestamp_weekday"] = PyInt(0)
          /\ result.rows[j]["timestamp_year"] = PyInt(2018)

-----------------------------------------------------------------------------
(* Claims about the keys and the row order of the relational count, checked *)
(* under SpecData.                                                          *)

\* a relational count over the type columns has returned
RelationalCounted ==
    /\ Constructed_as("SimpleAggregator")
    /\ err = "" /\ result # NoneObj

\* every row of count 0 comes after every row of another count
ZeroRowsLast(rows) ==
    \A i, j \in DOMAIN rows :
        (rows[i]["count"] = 0 /\ rows[j]["count"] # 0) => j < i

\* C13: the table SimpleAggregator.aggregate returns holds the unique values
\* of data2.rkey2 with their counts in data1.rkey1: its key values are the
\* distinct values of table2's key column and no others (a value that occurs
\* only in table1 is not among them), and its rows of count 0 come after all
\* the rows counted from table1.
C13_KeysOfTable2 ==
    RelationalCounted =>
        /\ Range(Column(result, "type")) = Range(Column(args.data2, "type"))
        /\ ZeroRowsLast(result.rows)

\* what holds of the keys and the order: the key values are those of table1
\* together with those of table2, each once; the rows counted from table1 come
\* first, most frequent first, and the rows of count 0 after them, in the
\* order in which their values first appear in table2
RelationalCountKeysAndOrder ==
    RelationalCounted =>
        LET col1 == Column(args.data1, "type")
            col2 == Column(args.data2, "type")
            keyCol == Column(result, "type")
            n1 == Cardinality(Range(col1))
            zeros == SelectSeq(unique(col2), LAMBDA v : v \notin Range(col1))
        IN  /\ Range(keyCol) = Range(col1) \cup Range(col2)
            /\ Len(keyCol) = Cardinality(Range(keyCol))
            /\ ZeroRowsLast(result.rows)
            /\ \A i \in 1..n1 :
                  /\ keyCol[i] \in Range(col1)
                  /\ result.rows[i]["count"] = Count(col1, keyCol[i])
                  /\ i > 1 => result.rows[i - 1]["count"] >= result.rows[i]["count"]
            /\ SubSeq(keyCol, n1 + 1, Len(keyCol)) = zeros
            /\ result.index = RangeIndex(Len(result.rows))

=============================================================================
